---- MODULE Spec2Model ----
(***************************************************************************)
(* The bounded-concurrency job engine of @cloud-copilot/job:               *)
(* ConcurrentJobQueue (results accumulate in a list) and                   *)
(* ConcurrentWorkerPool (one promise per job), which share the worker      *)
(* loop, the work-available promise, the idle check and the shutdown.      *)
(*                                                                         *)
(* One step of the model is one uninterrupted synchronous segment of the   *)
(* JavaScript event loop: a public method called by the user, the body of  *)
(* a job settling, or one continuation taken from the microtask queue.     *)
(***************************************************************************)
EXTENDS Integers, Sequences, FiniteSets, TLC

\* ---------------------------------------------------------------- bounds
MaxConcurrency == 2
MaxJobs == 3
MaxBatch == 2
MaxIdleCalls == 2
MaxFinishCalls == 2
MaxRunJobs == 3
MaxWatchedJobs == 2
MaxNow == 140000

\* ---------------------------------------------------------------- inputs
Kinds == {"ConcurrentJobQueue", "ConcurrentWorkerPool"}
ConcurrencyValues == (0 - 1) .. MaxConcurrency
\* what a job's execute does: return a promise that settles later, or throw
\* before returning one
ExecuteKinds == {"async", "throws"}
Values == {"v1"}
Reasons == {"e1"}
SyncReason == "thrown"
BodyOutcomes ==
  [status : {"fulfilled"}, value : Values] \cup [status : {"rejected"}, reason : Reasons]

null == 0
NoError == "none"
ShutdownError == "Cannot enqueue jobs after shutdown"
NoJob == [execute |-> "none", properties |-> 0]
Running == [status |-> "running"]
InvalidConcurrency == "Invalid concurrency"
NoRun == [called |-> FALSE]
\* the period of the long-running-job interval, and the step of the clock
IntervalMs == 60000
TickMs == 20000

VARIABLES
  kind,                  \* which class was constructed
  concurrency,           \* constructor argument
  queue,                 \* this.queue
  results,               \* this.results (ConcurrentJobQueue)
  activeJobs,            \* this.activeJobs
  waitingResolvers,      \* this.waitingResolvers: the waitForIdle calls to resolve
  workers,               \* this.workers: the worker promises, by worker id
  isAcceptingWork,       \* this.isAcceptingWork
  workAvailablePromise,  \* this.workAvailablePromise: a promise id, or null
  resolveWorkAvailable,  \* this.resolveWorkAvailable: the promise it resolves, or null
  jobCounter,            \* this.jobCounter (ConcurrentWorkerPool)
  resolveMap,            \* this.resolveMap (ConcurrentWorkerPool): job id -> promise
  workerTask,            \* each started worker(): where it is suspended
  pendingPromises,       \* unresolved work-available promises -> workers awaiting them
  microtasks,            \* worker continuations ready to run, first in first out
  jobPromises,           \* per promise returned by enqueue: the outcomes it was resolved with
  idleCalls,             \* per waitForIdle() call: how often its promise was resolved
  finishCalls,           \* per finishAllWork() call: the workers it awaits, and its state
  accepted,              \* history: the jobs enqueue accepted, in order
  executions,            \* history: the contexts execute was invoked with, in order
  settled,               \* history: what each job body produced, in settling order
  lastError,             \* what the last enqueue / enqueueAll threw
  run,                   \* one call of runJobs: its arguments, locals and history
  now,                   \* Date.now(), in milliseconds since construction
  timers,                \* the running setInterval timers, by the job they watch
  warnings,              \* history: the arguments of the calls of logger.warn
  onCompleteCalls        \* history: the outcomes onComplete was invoked with (StreamingJobQueue)

vars ==
  << kind, concurrency, queue, results, activeJobs, waitingResolvers, workers,
     isAcceptingWork, workAvailablePromise, resolveWorkAvailable, jobCounter,
     resolveMap, workerTask, pendingPromises, microtasks, jobPromises, idleCalls,
     finishCalls, accepted, executions, settled, lastError, run, now, timers,
     warnings, onCompleteCalls >>

\* The mutable state as one record, so that a method is a function of it.
Here ==
  [ queue |-> queue, results |-> results, activeJobs |-> activeJobs,
    waitingResolvers |-> waitingResolvers, workers |-> workers,
    isAcceptingWork |-> isAcceptingWork,
    workAvailablePromise |-> workAvailablePromise,
    resolveWorkAvailable |-> resolveWorkAvailable, jobCounter |-> jobCounter,
    resolveMap |-> resolveMap, workerTask |-> workerTask,
    pendingPromises |-> pendingPromises, microtasks |-> microtasks,
    jobPromises |-> jobPromises, idleCalls |-> idleCalls,
    finishCalls |-> finishCalls, accepted |-> accepted, executions |-> executions,
    settled |-> settled, lastError |-> lastError, timers |-> timers,
    onCompleteCalls |-> onCompleteCalls ]

Becomes(s) ==
  /\ queue' = s.queue
  /\ results' = s.results
  /\ activeJobs' = s.activeJobs
  /\ waitingResolvers' = s.waitingResolvers
  /\ workers' = s.workers
  /\ isAcceptingWork' = s.isAcceptingWork
  /\ workAvailablePromise' = s.workAvailablePromise
  /\ resolveWorkAvailable' = s.resolveWorkAvailable
  /\ jobCounter' = s.jobCounter
  /\ resolveMap' = s.resolveMap
  /\ workerTask' = s.workerTask
  /\ pendingPromises' = s.pendingPromises
  /\ microtasks' = s.microtasks
  /\ jobPromises' = s.jobPromises
  /\ idleCalls' = s.idleCalls
  /\ finishCalls' = s.finishCalls
  /\ accepted' = s.accepted
  /\ executions' = s.executions
  /\ settled' = s.settled
  /\ lastError' = s.lastError
  /\ timers' = s.timers
  /\ onCompleteCalls' = s.onCompleteCalls
  /\ UNCHANGED << kind, concurrency, run, now, warnings >>

\* Sequencing: `first` is evaluated once, to a state, and `rest` continues from
\* that state (the statements of a method run one after the other).
Then(first, rest(_)) == CHOOSE after \in {rest(s) : s \in {first}} : TRUE

\* ------------------------------------------------------- promise runtime
\* A function without the key k, and with the key k set.
Without(f, k) == [i \in DOMAIN f \ {k} |-> f[i]]
With(f, k, v) == [i \in DOMAIN f \cup {k} |-> IF i = k THEN v ELSE f[i]]

\* new Promise(...): an identity no unresolved promise and no slot holds.
NewPromise(s) ==
  CHOOSE p \in 1 .. Cardinality(DOMAIN s.pendingPromises) + 2 :
    /\ p \notin DOMAIN s.pendingPromises
    /\ p # s.workAvailablePromise
    /\ \A q \in 1 .. p - 1 : q \in DOMAIN s.pendingPromises \/ q = s.workAvailablePromise

\* `await p` by worker w: its continuation runs after p is resolved.
AwaitPromise(s, p, w) ==
  IF p \in DOMAIN s.pendingPromises
    THEN [s EXCEPT !.pendingPromises[p] = Append(@, w)]
    ELSE [s EXCEPT !.microtasks = Append(@, w)]

\* Calling the resolve function of promise p: the continuations of its
\* awaiters are queued in the order they awaited; a second call does nothing.
ResolvePromise(s, p) ==
  IF p \in DOMAIN s.pendingPromises
    THEN [s EXCEPT !.microtasks = @ \o s.pendingPromises[p],
                   !.pendingPromises = Without(@, p)]
    ELSE s

\* ------------------------------------------------------ private methods
\* (variant: every call makes a new promise and overwrites the slot)
waitForWorkAvailableAlwaysNew(s) ==
  LET p == NewPromise(s)
  IN [s EXCEPT !.workAvailablePromise = p,
               !.resolveWorkAvailable = p,
               !.pendingPromises = With(@, p, << >>)]

waitForWorkAvailable(s) ==
  IF s.workAvailablePromise = null
    THEN LET p == NewPromise(s)
         IN [s EXCEPT !.workAvailablePromise = p,
                      !.resolveWorkAvailable = p,
                      !.pendingPromises = With(@, p, << >>)]
    ELSE s

\* (variant: the slot is cleared but the promise is never resolved)
notifyWithoutResolve(s) ==
  IF s.resolveWorkAvailable # null
    THEN [s EXCEPT !.workAvailablePromise = null, !.resolveWorkAvailable = null]
    ELSE s

\* (variant: the promise is resolved but the slot keeps it)
notifyWithoutClearing(s) ==
  IF s.resolveWorkAvailable # null
    THEN ResolvePromise(s, s.resolveWorkAvailable)
    ELSE s

notifyWorkersOfNewWork(s) ==
  IF s.resolveWorkAvailable # null
    THEN Then(ResolvePromise(s, s.resolveWorkAvailable),
              LAMBDA s1 : [s1 EXCEPT !.workAvailablePromise = null,
                                     !.resolveWorkAvailable = null])
    ELSE s

\* resolve() of one waitForIdle promise; the history keeps how many results
\* the list held at that moment.
ResolveIdleCall(s, c) ==
  [s EXCEPT !.idleCalls[c].resolutions = @ + 1,
            !.idleCalls[c].resultsSeen = Len(s.results)]

\* (variant: only the first waiting resolver is called)
ResolveFirstOnly(s, rs) ==
  IF rs = << >> THEN s ELSE ResolveIdleCall(s, Head(rs))

RECURSIVE ResolveAll(_, _)
ResolveAll(s, rs) ==
  IF rs = << >> THEN s
  ELSE Then(ResolveIdleCall(s, Head(rs)), LAMBDA s1 : ResolveAll(s1, Tail(rs)))

\* (variant: the idle check looks at activeJobs only)
checkIfIdleIgnoringQueue(s) ==
  IF s.activeJobs = 0
    THEN Then(ResolveAll(s, s.waitingResolvers),
              LAMBDA s1 : [s1 EXCEPT !.waitingResolvers = << >>])
    ELSE s

\* (variant: the resolvers are called but the list is not emptied)
checkIfIdleKeepsResolvers(s) ==
  IF s.activeJobs = 0 /\ Len(s.queue) = 0
    THEN ResolveAll(s, s.waitingResolvers)
    ELSE s

checkIfIdle(s) ==
  IF s.activeJobs = 0 /\ Len(s.queue) = 0
    THEN Then(ResolveAll(s, s.waitingResolvers),
              LAMBDA s1 : [s1 EXCEPT !.waitingResolvers = << >>])
    ELSE s

\* The JobResult built from what the body produced.
JobResult(job, body) ==
  IF body.status = "fulfilled"
    THEN [status |-> "fulfilled", value |-> body.value, properties |-> job.properties]
    ELSE [status |-> "rejected", reason |-> body.reason, properties |-> job.properties]

\* (variant: the catch branch hands nothing over)
deliverFulfilledOnly(s, job, body) ==
  IF body.status # "fulfilled" THEN s
  ELSE IF kind = "ConcurrentJobQueue"
    THEN [s EXCEPT !.results = Append(@, JobResult(job, body))]
    ELSE LET resolve == s.resolveMap[job.concurrentJobId]
         IN [s EXCEPT !.jobPromises[resolve] = Append(@, JobResult(job, body))]

\* (variant: the outcome is put at the front of results)
deliverAtFront(s, job, body) ==
  IF kind = "ConcurrentJobQueue"
    THEN [s EXCEPT !.results = << JobResult(job, body) >> \o @]
    ELSE LET resolve == s.resolveMap[job.concurrentJobId]
         IN [s EXCEPT !.jobPromises[resolve] = Append(@, JobResult(job, body))]

\* (variant: the resolve function of the latest promise is called)
deliverToLatest(s, job, body) ==
  IF kind = "ConcurrentJobQueue"
    THEN [s EXCEPT !.results = Append(@, JobResult(job, body))]
    ELSE [s EXCEPT !.jobPromises[Len(s.jobPromises)] = Append(@, JobResult(job, body))]

\* StreamingJobQueue: the outcome is handed to the caller-supplied callback
\* as soon as it is produced; the engine keeps no list of outcomes.
handToCallback(s, job, body) ==
  [s EXCEPT !.onCompleteCalls = Append(@, JobResult(job, body))]

\* The try / catch of worker(): hand the outcome over.
deliver(s, job, body) ==
  IF kind = "ConcurrentJobQueue"
    THEN [s EXCEPT !.results = Append(@, JobResult(job, body))]
  ELSE IF kind = "StreamingJobQueue"
    THEN handToCallback(s, job, body)
    ELSE LET resolve == s.resolveMap[job.concurrentJobId]
         IN [s EXCEPT !.jobPromises[resolve] = Append(@, JobResult(job, body))]

\* (variant: the interval is never cleared)
finallyWithoutClear(s, job) ==
  Then([s EXCEPT !.activeJobs = @ - 1], LAMBDA s1 :
  Then(checkIfIdle(s1), LAMBDA s2 :
    IF kind = "ConcurrentWorkerPool"
      THEN [s2 EXCEPT !.resolveMap = Without(@, job.concurrentJobId)]
      ELSE s2))

\* (variant: the resolveMap entry of the job is not deleted)
finallyKeepsResolver(s, job) ==
  Then([s EXCEPT !.timers = Without(@, job.properties),
                 !.activeJobs = @ - 1], LAMBDA s1 : checkIfIdle(s1))

\* (variant: the finally does not run the idle check)
finallyWithoutIdleCheck(s, job) ==
  Then([s EXCEPT !.timers = Without(@, job.properties),
                 !.activeJobs = @ - 1], LAMBDA s1 :
    IF kind = "ConcurrentWorkerPool"
      THEN [s1 EXCEPT !.resolveMap = Without(@, job.concurrentJobId)]
      ELSE s1)

\* The finally of worker().
finally(s, job) ==
  Then([s EXCEPT !.timers = Without(@, job.properties),
                 !.activeJobs = @ - 1], LAMBDA s1 :
  Then(checkIfIdle(s1), LAMBDA s2 :
    IF kind = "ConcurrentWorkerPool"
      THEN [s2 EXCEPT !.resolveMap = Without(@, job.concurrentJobId)]
      ELSE s2))

\* (variant: no catch and no finally, a failure of the body leaves worker())
completeWithoutCatch(s, w, job, body) ==
  IF body.status = "rejected"
    THEN [s EXCEPT !.workerTask[w] = [pc |-> "threw", job |-> NoJob, body |-> Running]]
    ELSE Then(deliver(s, job, body), LAMBDA s1 :
         Then(finally(s1, job), LAMBDA s2 :
           [s2 EXCEPT !.workerTask[w] = [pc |-> "loop", job |-> NoJob, body |-> Running]]))

\* (variant: the finally, with its idle check, runs before the outcome is
\* handed over)
completeIdleCheckFirst(s, w, job, body) ==
  Then(finally(s, job), LAMBDA s1 :
  Then(IF kind = "ConcurrentJobQueue"
         THEN [s1 EXCEPT !.results = Append(@, JobResult(job, body))]
         ELSE LET resolve == s.resolveMap[job.concurrentJobId]
              IN [s1 EXCEPT !.jobPromises[resolve] = Append(@, JobResult(job, body))],
       LAMBDA s2 :
         [s2 EXCEPT !.workerTask[w] = [pc |-> "loop", job |-> NoJob, body |-> Running]]))

\* (variant: the outcome is handed over in the try and again in the catch)
completeDeliversTwice(s, w, job, body) ==
  Then(deliver(s, job, body), LAMBDA s0 :
  Then(deliver(s0, job, body), LAMBDA s1 :
  Then(finally(s1, job), LAMBDA s2 :
    [s2 EXCEPT !.workerTask[w] = [pc |-> "loop", job |-> NoJob, body |-> Running]])))

\* (variant: the count is decremented only when the body succeeded)
completeCountsSuccessOnly(s, w, job, body) ==
  Then(deliver(s, job, body), LAMBDA s1 :
  Then(finally(s1, job), LAMBDA s2 :
    [s2 EXCEPT !.workerTask[w] = [pc |-> "loop", job |-> NoJob, body |-> Running],
               !.activeJobs = IF body.status = "rejected" THEN @ + 1 ELSE @]))

\* A body has produced `body` for `job`: try / catch / finally of worker().
\* In the pool a missing resolveMap entry makes the call of `resolve` throw,
\* in the try and again in the catch: the finally runs and worker() rejects.
complete(s, w, job, body) ==
  IF kind = "ConcurrentWorkerPool" /\ job.concurrentJobId \notin DOMAIN s.resolveMap
    THEN Then(finally(s, job), LAMBDA s1 :
           [s1 EXCEPT !.workerTask[w] = [pc |-> "threw", job |-> NoJob, body |-> Running]])
    ELSE Then(deliver(s, job, body), LAMBDA s1 :
         Then(finally(s1, job), LAMBDA s2 :
           [s2 EXCEPT !.workerTask[w] = [pc |-> "loop", job |-> NoJob, body |-> Running]]))

JobSettled(s, job, body) ==
  [s EXCEPT !.settled = Append(@, [properties |-> job.properties, body |-> body,
                                   time |-> now])]

\* (variant: the loop ends at shutdown, whatever the queue holds)
loopWhileAccepting(s) == s.isAcceptingWork

\* The condition of the while loop of worker().
loopCondition(s) == s.isAcceptingWork \/ Len(s.queue) > 0

\* (variant: the job is taken from the tail of the queue)
pop(q) == [job |-> q[Len(q)], rest |-> SubSeq(q, 1, Len(q) - 1)]

\* this.queue.shift() on a non-empty queue: the job removed and what is left.
shift(q) == [job |-> Head(q), rest |-> Tail(q)]

\* worker(workerId) from the head of its while loop to its next await or to
\* its return.
RECURSIVE worker(_, _)
worker(s, workerId) ==
  IF ~loopCondition(s)
    THEN [s EXCEPT !.workerTask[workerId] = [pc |-> "returned", job |-> NoJob, body |-> Running]]
  ELSE IF Len(s.queue) = 0
    THEN IF ~s.isAcceptingWork
           THEN [s EXCEPT !.workerTask[workerId] =
                            [pc |-> "returned", job |-> NoJob, body |-> Running]]
           ELSE Then(waitForWorkAvailable(s), LAMBDA s1 :
                Then([s1 EXCEPT !.workerTask[workerId] =
                                  [pc |-> "awaitWork", job |-> NoJob, body |-> Running]],
                     LAMBDA s2 : AwaitPromise(s2, s2.workAvailablePromise, workerId)))
  ELSE LET job == shift(s.queue).job
           body == [status |-> "rejected", reason |-> SyncReason]
       IN Then([s EXCEPT !.queue = shift(@).rest,
                         !.activeJobs = @ + 1,
                         !.timers = With(@, job.properties,
                                         [workerId |-> workerId, startTime |-> now,
                                          due |-> now + IntervalMs]),
                         !.executions = Append(@, [workerId |-> workerId,
                                                    properties |-> job.properties,
                                                    startTime |-> now])],
               LAMBDA s1 :
                 IF job.execute = "throws"
                   THEN Then(JobSettled(s1, job, body), LAMBDA s2 :
                        Then(complete(s2, workerId, job, body), LAMBDA s3 :
                          IF s3.workerTask[workerId].pc = "threw"
                            THEN s3
                            ELSE worker(s3, workerId)))
                   ELSE [s1 EXCEPT !.workerTask[workerId] =
                                     [pc |-> "awaitJob", job |-> job, body |-> Running]])

\* (variant: the loop runs while i <= concurrency)
RECURSIVE StartWorkersOneMore(_, _)
StartWorkersOneMore(s, i) ==
  IF i <= concurrency
    THEN Then([s EXCEPT !.workers = Append(@, i + 1),
                        !.workerTask = With(@, i + 1, [pc |-> "loop", job |-> NoJob,
                                                         body |-> Running])],
              LAMBDA s1 : Then(worker(s1, i + 1), LAMBDA s2 : StartWorkersOneMore(s2, i + 1)))
    ELSE s

\* (variant: worker(i) instead of worker(i + 1))
RECURSIVE StartWorkersFromZero(_, _)
StartWorkersFromZero(s, i) ==
  IF i < concurrency
    THEN Then([s EXCEPT !.workers = Append(@, i),
                        !.workerTask = With(@, i, [pc |-> "loop", job |-> NoJob,
                                                     body |-> Running])],
              LAMBDA s1 : Then(worker(s1, i), LAMBDA s2 : StartWorkersFromZero(s2, i + 1)))
    ELSE s

\* The for loop of ensureWorkers(), from i on:
\* this.workers.push(this.worker(i + 1))
RECURSIVE StartWorkers(_, _)
StartWorkers(s, i) ==
  IF i < concurrency
    THEN Then([s EXCEPT !.workers = Append(@, i + 1),
                        !.workerTask = With(@, i + 1, [pc |-> "loop", job |-> NoJob,
                                                         body |-> Running])],
              LAMBDA s1 : Then(worker(s1, i + 1), LAMBDA s2 : StartWorkers(s2, i + 1)))
    ELSE s

\* (variant: a concurrency below one still gets one worker)
ensureAtLeastOneWorker(s) ==
  IF Len(s.workers) = 0 /\ s.isAcceptingWork
    THEN IF concurrency < 1
           THEN Then([s EXCEPT !.workers = << 1 >>,
                               !.workerTask = With(@, 1, [pc |-> "loop", job |-> NoJob,
                                                            body |-> Running])],
                     LAMBDA s1 : worker(s1, 1))
           ELSE StartWorkers(s, 0)
    ELSE s

ensureWorkers(s) ==
  IF Len(s.workers) = 0 /\ s.isAcceptingWork THEN StartWorkers(s, 0) ELSE s

\* (variant: in the pool the worker yields once more between the call of
\* `resolve` and the finally)
resumeYieldsAfterResolve(s, w) ==
  LET job == s.workerTask[w].job
  IN IF s.workerTask[w].pc = "awaitJob" /\ kind = "ConcurrentWorkerPool"
       THEN IF s.jobPromises[s.resolveMap[job.concurrentJobId]] = << >>
              THEN Then(deliver(s, job, s.workerTask[w].body), LAMBDA s1 :
                     [s1 EXCEPT !.microtasks = Append(@, w)])
              ELSE Then(finally(s, job), LAMBDA s1 :
                   Then([s1 EXCEPT !.workerTask[w] =
                                     [pc |-> "loop", job |-> NoJob, body |-> Running]],
                        LAMBDA s2 : worker(s2, w)))
     ELSE IF s.workerTask[w].pc = "awaitJob"
       THEN Then(complete(s, w, job, s.workerTask[w].body), LAMBDA s1 :
              IF s1.workerTask[w].pc = "threw" THEN s1 ELSE worker(s1, w))
       ELSE worker(s, w)

\* worker(w) resumes after its await: of the job's promise (the try / catch /
\* finally, then the loop again), or of the work-available promise (`continue`).
resume(s, w) ==
  IF s.workerTask[w].pc = "awaitJob"
    THEN Then(complete(s, w, s.workerTask[w].job, s.workerTask[w].body), LAMBDA s1 :
           IF s1.workerTask[w].pc = "threw" THEN s1 ELSE worker(s1, w))
    ELSE worker(s, w)

\* ------------------------------------------------------- public methods
\* The job as the engine stores it.
Stored(s, job) ==
  IF kind = "ConcurrentWorkerPool"
    THEN [execute |-> job.execute, properties |-> job.properties,
          concurrentJobId |-> s.jobCounter]
    ELSE job

\* (variant: no check of isAcceptingWork)
enqueueWithoutGuard(s, job) ==
  Then(IF kind = "ConcurrentWorkerPool"
         THEN [s EXCEPT !.jobCounter = @ + 1,
                        !.jobPromises = Append(@, << >>),
                        !.resolveMap = With(@, s.jobCounter, Len(s.jobPromises) + 1)]
         ELSE s, LAMBDA s1 :
  Then([s1 EXCEPT !.queue = Append(@, Stored(s, job)),
                  !.accepted = Append(@, job),
                  !.lastError = NoError], LAMBDA s2 :
  Then(ensureWorkers(s2), LAMBDA s3 : notifyWorkersOfNewWork(s3))))

\* (variant: the job is put at the front of the queue)
enqueueAtFront(s, job) ==
  IF ~s.isAcceptingWork
    THEN [s EXCEPT !.lastError = ShutdownError]
    ELSE Then(IF kind = "ConcurrentWorkerPool"
                THEN [s EXCEPT !.jobCounter = @ + 1,
                               !.jobPromises = Append(@, << >>),
                               !.resolveMap = With(@, s.jobCounter, Len(s.jobPromises) + 1)]
                ELSE s, LAMBDA s1 :
         Then([s1 EXCEPT !.queue = << Stored(s, job) >> \o @,
                         !.accepted = Append(@, job),
                         !.lastError = NoError], LAMBDA s2 :
         Then(ensureWorkers(s2), LAMBDA s3 : notifyWorkersOfNewWork(s3))))

\* (variant: the identifier is the number of live registry entries)
enqueueReusingIds(s, job) ==
  IF ~s.isAcceptingWork
    THEN [s EXCEPT !.lastError = ShutdownError]
    ELSE Then([s EXCEPT !.jobCounter = Cardinality(DOMAIN s.resolveMap)], LAMBDA s0 :
         Then(IF kind = "ConcurrentWorkerPool"
                THEN [s0 EXCEPT !.jobCounter = @ + 1,
                                !.jobPromises = Append(@, << >>),
                                !.resolveMap = With(@, s0.jobCounter, Len(s0.jobPromises) + 1)]
                ELSE s0, LAMBDA s1 :
         Then([s1 EXCEPT !.queue = Append(@, Stored(s0, job)),
                         !.accepted = Append(@, job),
                         !.lastError = NoError], LAMBDA s2 :
         Then(ensureWorkers(s2), LAMBDA s3 : notifyWorkersOfNewWork(s3)))))

\* (variant: the workers are not told about the new job)
enqueueWithoutNotify(s, job) ==
  IF ~s.isAcceptingWork
    THEN [s EXCEPT !.lastError = ShutdownError]
    ELSE Then(IF kind = "ConcurrentWorkerPool"
                THEN [s EXCEPT !.jobCounter = @ + 1,
                               !.jobPromises = Append(@, << >>),
                               !.resolveMap = With(@, s.jobCounter, Len(s.jobPromises) + 1)]
                ELSE s, LAMBDA s1 :
         Then([s1 EXCEPT !.queue = Append(@, Stored(s, job)),
                         !.accepted = Append(@, job),
                         !.lastError = NoError], LAMBDA s2 : ensureWorkers(s2)))

enqueue(s, job) ==
  IF ~s.isAcceptingWork
    THEN [s EXCEPT !.lastError = ShutdownError]
    ELSE Then(IF kind = "ConcurrentWorkerPool"
                THEN [s EXCEPT !.jobCounter = @ + 1,
                               !.jobPromises = Append(@, << >>),
                               !.resolveMap = With(@, s.jobCounter, Len(s.jobPromises) + 1)]
                ELSE s, LAMBDA s1 :
         Then([s1 EXCEPT !.queue = Append(@, Stored(s, job)),
                         !.accepted = Append(@, job),
                         !.lastError = NoError], LAMBDA s2 :
         Then(ensureWorkers(s2), LAMBDA s3 : notifyWorkersOfNewWork(s3))))

\* (variant: the list is walked from its last element)
RECURSIVE enqueueEachReversed(_, _)
enqueueEachReversed(s, jobs) ==
  IF jobs = << >> THEN s
  ELSE Then(enqueue(s, jobs[Len(jobs)]), LAMBDA s1 :
         IF s1.lastError # NoError THEN s1
         ELSE enqueueEachReversed(s1, SubSeq(jobs, 1, Len(jobs) - 1)))

\* jobs.forEach / jobs.map: the first throw ends the loop.
RECURSIVE enqueueEach(_, _)
enqueueEach(s, jobs) ==
  IF jobs = << >> THEN s
  ELSE Then(enqueue(s, Head(jobs)), LAMBDA s1 :
         IF s1.lastError # NoError THEN s1 ELSE enqueueEach(s1, Tail(jobs)))

enqueueAll(s, jobs) ==
  Then([s EXCEPT !.lastError = NoError], LAMBDA s1 : enqueueEach(s1, jobs))

\* What jobs.map((job) => this.enqueue(job)) returns in the pool: the promise
\* each call of enqueue creates, in list order.
RECURSIVE enqueueAllReturns(_, _)
enqueueAllReturns(s, jobs) ==
  IF jobs = << >> THEN << >>
  ELSE << Len(s.jobPromises) + 1 >> \o enqueueAllReturns(enqueue(s, Head(jobs)), Tail(jobs))

\* A caller calling enqueue on each element in list order, whatever it throws.
RECURSIVE EnqueueOneByOne(_, _)
EnqueueOneByOne(s, jobs) ==
  IF jobs = << >> THEN s
  ELSE Then(enqueue(s, Head(jobs)), LAMBDA s1 : EnqueueOneByOne(s1, Tail(jobs)))

\* A waitForIdle() call as the history keeps it: how often its promise was
\* resolved, how many results there were when it was, and whether the engine
\* was idle when the call was made.
IdleCall(s) ==
  [ resolutions |-> 0,
    resultsSeen |-> 0,
    atIdle |-> s.activeJobs = 0 /\ Len(s.queue) = 0 ]

\* (variant: the resolver is always queued, also when the engine is idle)
waitForIdleAlwaysWaits(s) ==
  Then([s EXCEPT !.idleCalls = Append(@, IdleCall(s))], LAMBDA s1 :
    [s1 EXCEPT !.waitingResolvers = Append(@, Len(s1.idleCalls))])

waitForIdle(s) ==
  Then([s EXCEPT !.idleCalls = Append(@, IdleCall(s))], LAMBDA s1 :
    IF s1.activeJobs = 0 /\ Len(s1.queue) = 0
      THEN ResolveIdleCall(s1, Len(s1.idleCalls))
      ELSE [s1 EXCEPT !.waitingResolvers = Append(@, Len(s1.idleCalls))])

\* A finishAllWork() call as the history keeps it: the worker promises its
\* Promise.all awaits, and whether it has resolved.
FinishCall(s) == [awaits |-> s.workers, resolved |-> FALSE]

\* (variant: the sleeping workers are not woken)
finishAllWorkWithoutNotify(s) ==
  Then([s EXCEPT !.isAcceptingWork = FALSE], LAMBDA s1 :
    [s1 EXCEPT !.finishCalls = Append(@, FinishCall(s1))])

\* (variant: a call that finds no workers starts a fresh set before waiting)
finishAllWorkStartsWorkers(s) ==
  Then([s EXCEPT !.isAcceptingWork = FALSE], LAMBDA s1 :
  Then(notifyWorkersOfNewWork(s1), LAMBDA s2 :
  Then(IF Len(s2.workers) = 0 THEN StartWorkers(s2, 0) ELSE s2, LAMBDA s3 :
    [s3 EXCEPT !.finishCalls = Append(@, FinishCall(s3))])))

\* finishAllWork() up to its await of Promise.all(this.workers)
finishAllWork(s) ==
  Then([s EXCEPT !.isAcceptingWork = FALSE], LAMBDA s1 :
  Then(notifyWorkersOfNewWork(s1), LAMBDA s2 :
    [s2 EXCEPT !.finishCalls = Append(@, FinishCall(s2))]))

\* (variant: finishAllWork() does not await the workers)
NotAwaited(s, ws) == TRUE

\* Promise.all(ws) is fulfilled: every worker() of ws has returned.
AllReturned(s, ws) == \A i \in DOMAIN ws : s.workerTask[ws[i]].pc = "returned"

\* (variant: the engine accepts work again once it is drained)
finishAllWorkResumesReopens(s, c) ==
  [s EXCEPT !.workers = << >>, !.finishCalls[c].resolved = TRUE, !.isAcceptingWork = TRUE]

\* finishAllWork() after its await
finishAllWorkResumes(s, c) ==
  [s EXCEPT !.workers = << >>, !.finishCalls[c].resolved = TRUE]

\* ---------------------------------------------------------------- steps
\* The fields of a newly constructed queue or pool.
Constructed ==
  /\ queue = << >>
  /\ results = << >>
  /\ activeJobs = 0
  /\ waitingResolvers = << >>
  /\ workers = << >>
  /\ isAcceptingWork = TRUE
  /\ workAvailablePromise = null
  /\ resolveWorkAvailable = null
  /\ jobCounter = 0
  /\ resolveMap = << >>
  /\ workerTask = << >>
  /\ pendingPromises = << >>
  /\ microtasks = << >>
  /\ jobPromises = << >>
  /\ idleCalls = << >>
  /\ finishCalls = << >>
  /\ accepted = << >>
  /\ executions = << >>
  /\ settled = << >>
  /\ lastError = NoError
  /\ now = 0
  /\ timers = << >>
  /\ warnings = << >>
  /\ onCompleteCalls = << >>

Init ==
  /\ kind \in Kinds
  /\ concurrency \in ConcurrencyValues
  /\ Constructed
  /\ run = NoRun

\* The jobs a caller can hand over next: fresh properties, either behaviour.
NewJob(n, e) == [execute |-> e, properties |-> n]

Enqueue(e) ==
  /\ ~isAcceptingWork \/ Len(accepted) < MaxJobs
  /\ \E s \in {enqueue(Here, NewJob(Len(accepted) + 1, e))} : Becomes(s)

EnqueueAll(es) ==
  /\ ~isAcceptingWork \/ Len(accepted) + Len(es) <= MaxJobs
  /\ \E s \in {enqueueAll(Here, [i \in 1 .. Len(es) |-> NewJob(Len(accepted) + i, es[i])])} :
       Becomes(s)

WaitForIdle ==
  /\ Len(idleCalls) < MaxIdleCalls
  /\ \E s \in {waitForIdle(Here)} : Becomes(s)

FinishAllWork ==
  /\ Len(finishCalls) < MaxFinishCalls
  /\ \E s \in {finishAllWork(Here)} : Becomes(s)

FinishAllWorkResumes(c) ==
  /\ c \in DOMAIN finishCalls
  /\ ~finishCalls[c].resolved
  /\ AllReturned(Here, finishCalls[c].awaits)
  /\ \E s \in {finishAllWorkResumes(Here, c)} : Becomes(s)

\* The promise returned by execute settles: the continuation of the worker
\* awaiting it is queued.
JobSettles(w, body) ==
  /\ w \in DOMAIN workerTask
  /\ workerTask[w].pc = "awaitJob"
  /\ workerTask[w].body = Running
  /\ \E s \in {JobSettled(Here, workerTask[w].job, body)} :
       Becomes([s EXCEPT !.workerTask[w].body = body, !.microtasks = Append(@, w)])

\* The first queued continuation runs: a worker resumes after its await.
WorkerResumes ==
  /\ microtasks # << >>
  /\ \E s \in {resume([Here EXCEPT !.microtasks = Tail(@)], Head(microtasks))} :
       Becomes(s)

Next ==
  \/ \E e \in ExecuteKinds : Enqueue(e)
  \/ \E len \in 0 .. MaxBatch : \E es \in [1 .. len -> ExecuteKinds] : EnqueueAll(es)
  \/ WaitForIdle
  \/ FinishAllWork
  \/ \E c \in DOMAIN finishCalls : FinishAllWorkResumes(c)
  \/ \E w \in DOMAIN workerTask : \E body \in BodyOutcomes : JobSettles(w, body)
  \/ WorkerResumes

Spec == Init /\ [][Next]_vars

\* The event loop runs every queued continuation, every job body settles,
\* and a finishAllWork() whose workers have all returned resumes.
Fairness ==
  /\ WF_vars(WorkerResumes)
  /\ WF_vars(\E w \in DOMAIN workerTask : \E body \in BodyOutcomes : JobSettles(w, body))
  /\ WF_vars(\E c \in DOMAIN finishCalls : FinishAllWorkResumes(c))

\* The engine without waitForIdle() callers, under the event loop's fairness.
LiveNext ==
  \/ \E e \in ExecuteKinds : Enqueue(e)
  \/ \E len \in 0 .. MaxBatch : \E es \in [1 .. len -> ExecuteKinds] : EnqueueAll(es)
  \/ FinishAllWork
  \/ \E c \in DOMAIN finishCalls : FinishAllWorkResumes(c)
  \/ \E w \in DOMAIN workerTask : \E body \in BodyOutcomes : JobSettles(w, body)
  \/ WorkerResumes

LiveSpec == Init /\ [][LiveNext]_vars /\ Fairness

\* The whole engine, waitForIdle() callers included, under the same fairness.
IdleLiveSpec == Init /\ [][Next]_vars /\ Fairness

\* ------------------------------------------------------ StreamingJobQueue
\* The streaming queue: the same engine, constructed with a callback.
StreamInit ==
  /\ kind = "StreamingJobQueue"
  /\ concurrency \in ConcurrencyValues
  /\ Constructed
  /\ run = NoRun

StreamSpec == StreamInit /\ [][Next]_vars

\* The two result-collecting queues constructed with concurrency 1.
SerialInit ==
  /\ kind \in {"ConcurrentJobQueue", "StreamingJobQueue"}
  /\ concurrency = 1
  /\ Constructed
  /\ run = NoRun

SerialSpec == SerialInit /\ [][Next]_vars

\* --------------------------------------------------------------- watchdog
\* The third argument of logger.warn: { ...context, ...job.properties }, the
\* properties of the job being an object { id: p }.
Merge(a, b) == [k \in DOMAIN a \cup DOMAIN b |-> IF k \in DOMAIN b THEN b[k] ELSE a[k]]

\* The callback of setInterval for the job with properties p.
Warning(p) ==
  [ message |-> "Long-running job detected.",
    minutes |-> (now - timers[p].startTime) \div IntervalMs,
    context |-> Merge([workerId |-> timers[p].workerId], [id |-> p]) ]

\* A timer is due, and the event loop has no continuation left to run first.
TimerFires(p) ==
  /\ p \in DOMAIN timers
  /\ microtasks = << >>
  /\ timers[p].due <= now
  /\ warnings' = Append(warnings, Warning(p))
  /\ timers' = [timers EXCEPT ![p].due = @ + IntervalMs]
  /\ UNCHANGED << kind, concurrency, queue, results, activeJobs, waitingResolvers, workers,
                  isAcceptingWork, workAvailablePromise, resolveWorkAvailable, jobCounter,
                  resolveMap, workerTask, pendingPromises, microtasks, jobPromises,
                  idleCalls, finishCalls, accepted, executions, settled, lastError, run,
                  now, onCompleteCalls >>

\* Time passes, once everything that was ready to run has run.
Tick ==
  /\ now < MaxNow
  /\ microtasks = << >>
  /\ \A p \in DOMAIN timers : timers[p].due > now
  /\ now' = now + TickMs
  /\ UNCHANGED << kind, concurrency, queue, results, activeJobs, waitingResolvers, workers,
                  isAcceptingWork, workAvailablePromise, resolveWorkAvailable, jobCounter,
                  resolveMap, workerTask, pendingPromises, microtasks, jobPromises,
                  idleCalls, finishCalls, accepted, executions, settled, lastError, run,
                  timers, warnings, onCompleteCalls >>

\* The engine with a clock: jobs are enqueued, run and settle while time
\* passes.
WatchNext ==
  \/ \E e \in ExecuteKinds : Len(accepted) < MaxWatchedJobs /\ Enqueue(e)
  \/ \E w \in DOMAIN workerTask : \E body \in BodyOutcomes : JobSettles(w, body)
  \/ WorkerResumes
  \/ \E p \in DOMAIN timers : TimerFires(p)
  \/ Tick

WatchSpec == Init /\ [][WatchNext]_vars

\* The reports made so far for the job with properties p.
Reports(p) == SelectSeq(warnings, LAMBDA r : r.context.id = p)

\* ---------------------------------------------------------------- runJobs
\* One call of runJobs(jobs, concurrency, logger). `run` holds the arguments,
\* the locals `results` (a JavaScript array: index -> entry, indices from 0),
\* `nextIndex` and `workers`, where each worker() is suspended, and the
\* history of the contexts execute was invoked with and of what each body
\* produced.
Min(a, b) == IF a <= b THEN a ELSE b

\* The length of a JavaScript array: one more than its highest index.
ArrayLength(a) ==
  IF DOMAIN a = {} THEN 0 ELSE (CHOOSE i \in DOMAIN a : \A j \in DOMAIN a : j <= i) + 1

\* The arguments of the call, before it is made.
RunInput(jobs, c) ==
  [ called |-> FALSE, jobs |-> jobs, concurrency |-> c, error |-> NoError,
    nextIndex |-> 0, results |-> << >>, workers |-> << >>, workerTask |-> << >>,
    microtasks |-> << >>, executions |-> << >>, bodies |-> << >>, returned |-> FALSE ]

\* (variant: the outcome is pushed at the end of results)
PushResult(r, i, body) ==
  [r EXCEPT !.results = With(@, ArrayLength(r.results), JobResult(r.jobs[i + 1], body)),
            !.bodies = With(@, i, body)]

\* results[i] = { status, value | reason, properties: jobs[i].properties }
StoreResult(r, i, body) ==
  [r EXCEPT !.results = With(@, i, JobResult(r.jobs[i + 1], body)),
            !.bodies = With(@, i, body)]

\* The inner worker(workerId) of runJobs, from the head of its while (true)
\* to its next await or to its return.
RECURSIVE runJobsWorker(_, _)
runJobsWorker(r, workerId) ==
  LET i == r.nextIndex
  IN Then([r EXCEPT !.nextIndex = @ + 1], LAMBDA r1 :
       IF i >= Len(r1.jobs)
         THEN [r1 EXCEPT !.workerTask[workerId] = [pc |-> "returned", i |-> i, body |-> Running]]
         ELSE Then([r1 EXCEPT !.executions =
                                Append(@, [workerId |-> workerId,
                                           properties |-> r1.jobs[i + 1].properties])],
                   LAMBDA r2 :
                     IF r2.jobs[i + 1].execute = "throws"
                       THEN Then(StoreResult(r2, i, [status |-> "rejected",
                                                     reason |-> SyncReason]),
                                 LAMBDA r3 : runJobsWorker(r3, workerId))
                       ELSE [r2 EXCEPT !.workerTask[workerId] =
                                         [pc |-> "awaitJob", i |-> i, body |-> Running]]))

\* (variant: as many workers as `concurrency`, whatever the number of jobs)
WorkerCountIgnoringJobs(jobs, c) == c

\* Math.min(concurrency, jobs.length)
WorkerCount(jobs, c) == Min(c, Len(jobs))

\* Array(n).fill(null).map((_, idx) => worker(idx + 1)), from idx on
RECURSIVE RunWorkers(_, _, _)
RunWorkers(r, idx, n) ==
  IF idx < n
    THEN Then([r EXCEPT !.workers = Append(@, idx + 1),
                        !.workerTask = With(@, idx + 1, [pc |-> "loop", i |-> 0,
                                                           body |-> Running])],
              LAMBDA r1 : Then(runJobsWorker(r1, idx + 1),
                               LAMBDA r2 : RunWorkers(r2, idx + 1, n)))
    ELSE r

\* (variant: only a negative concurrency is refused)
NegativeConcurrency(c) == c < 0

\* concurrency == null || concurrency === undefined || concurrency <= 0
NotPositive(c) == c <= 0

\* runJobs up to its await of Promise.all(workers)
runJobs(r) ==
  Then([r EXCEPT !.called = TRUE], LAMBDA r1 :
    IF NotPositive(r1.concurrency)
      THEN [r1 EXCEPT !.error = InvalidConcurrency]
      ELSE RunWorkers(r1, 0, WorkerCount(r1.jobs, r1.concurrency)))

\* (variant: a worker whose job failed stores the failure and returns)
runJobsResumeStopsOnFailure(r, w) ==
  Then(StoreResult(r, r.workerTask[w].i, r.workerTask[w].body), LAMBDA r1 :
    IF r.workerTask[w].body.status = "rejected"
      THEN [r1 EXCEPT !.workerTask[w].pc = "returned"]
      ELSE runJobsWorker(r1, w))

\* A worker of runJobs resumes after `await jobs[i].execute(...)`.
runJobsResume(r, w) ==
  Then(StoreResult(r, r.workerTask[w].i, r.workerTask[w].body), LAMBDA r1 :
    runJobsWorker(r1, w))

\* The job lists and concurrencies runJobs is called with.
RunInputs ==
  UNION {{RunInput([i \in 1 .. len |-> NewJob(i, es[i])], c) :
            es \in [1 .. len -> ExecuteKinds], c \in ConcurrencyValues} :
         len \in 0 .. MaxRunJobs}

RunInit ==
  /\ kind = "ConcurrentWorkerPool"
  /\ concurrency = 1
  /\ Constructed
  /\ run \in RunInputs

RunUnchanged ==
  UNCHANGED << kind, concurrency, queue, results, activeJobs, waitingResolvers, workers,
               isAcceptingWork, workAvailablePromise, resolveWorkAvailable, jobCounter,
               resolveMap, workerTask, pendingPromises, microtasks, jobPromises, idleCalls,
               finishCalls, accepted, executions, settled, lastError, now, timers,
               warnings, onCompleteCalls >>

RunJobs ==
  /\ ~run.called
  /\ \E r \in {runJobs(run)} : run' = r
  /\ RunUnchanged

\* The promise returned by jobs[i].execute settles.
RunJobSettles(w, body) ==
  /\ w \in DOMAIN run.workerTask
  /\ run.workerTask[w].pc = "awaitJob"
  /\ run.workerTask[w].body = Running
  /\ run' = [run EXCEPT !.workerTask[w].body = body, !.microtasks = Append(@, w)]
  /\ RunUnchanged

RunWorkerResumes ==
  /\ run.microtasks # << >>
  /\ \E r \in {runJobsResume([run EXCEPT !.microtasks = Tail(@)], Head(run.microtasks))} :
       run' = r
  /\ RunUnchanged

\* Promise.all(workers) is fulfilled and runJobs returns results.
RunReturns ==
  /\ run.called /\ run.error = NoError /\ ~run.returned
  /\ \A w \in DOMAIN run.workerTask : run.workerTask[w].pc = "returned"
  /\ run' = [run EXCEPT !.returned = TRUE]
  /\ RunUnchanged

RunNext ==
  \/ RunJobs
  \/ \E w \in 1 .. MaxConcurrency : \E body \in BodyOutcomes : RunJobSettles(w, body)
  \/ RunWorkerResumes
  \/ RunReturns

RunFairness ==
  /\ WF_vars(RunJobs)
  /\ WF_vars(\E w \in 1 .. MaxConcurrency : \E body \in BodyOutcomes : RunJobSettles(w, body))
  /\ WF_vars(RunWorkerResumes)
  /\ WF_vars(RunReturns)

RunSpec == RunInit /\ [][RunNext]_vars /\ RunFairness

\* The jobs of the run whose execute was invoked and whose result is not stored.
RunExecuting ==
  {run.executions[k].properties : k \in DOMAIN run.executions}
    \ {i + 1 : i \in DOMAIN run.results}

\* ------------------------------------------------------------ vocabulary
AcceptedJobs == {accepted[i].properties : i \in DOMAIN accepted}
StartedJobs == {executions[i].properties : i \in DOMAIN executions}
SettledJobs == {settled[i].properties : i \in DOMAIN settled}
ExecutingJobs == StartedJobs \ SettledJobs

\* The outcomes handed over for the job with properties p: the entries of
\* results, or what the promise enqueue returned for it was resolved with.
Outcomes(p) ==
  IF kind = "ConcurrentJobQueue"
    THEN SelectSeq(results, LAMBDA r : r.properties = p)
  ELSE IF kind = "StreamingJobQueue"
    THEN SelectSeq(onCompleteCalls, LAMBDA r : r.properties = p)
    ELSE IF p \in DOMAIN jobPromises THEN jobPromises[p] ELSE << >>

FinishCalled == finishCalls # << >>
FinishResolved == \E c \in DOMAIN finishCalls : finishCalls[c].resolved
Idle == activeJobs = 0 /\ Len(queue) = 0
\* A job is past its completion step when no worker holds it any more.
Held(p) == \E w \in DOMAIN workerTask : workerTask[w].job.properties = p
\* What the body of the job with properties p produced.
BodyOf(p) == settled[CHOOSE i \in DOMAIN settled : settled[i].properties = p].body
Pending(c) == idleCalls[c].resolutions = 0
\* The jobs whose completion (try / catch / finally of worker()) has run.
\* The lists of jobs a caller can hand to enqueueAll in the current state.
Batches ==
  UNION {{[i \in 1 .. len |-> NewJob(Len(accepted) + i, es[i])] :
            es \in [1 .. len -> ExecuteKinds]} : len \in 0 .. MaxBatch}
\* The jobs a state of the engine stores: queued, or held by a worker.
StoredJobs(s) ==
  {s.queue[i] : i \in DOMAIN s.queue}
    \cup {s.workerTask[w].job : w \in {x \in DOMAIN s.workerTask : s.workerTask[x].pc = "awaitJob"}}
\* The position of the job with properties p in the settling order.
SettledAt(p) == CHOOSE i \in DOMAIN settled : settled[i].properties = p
\* The invocation of execute for the job with properties p, and its settling.
ExecutionOf(p) == executions[CHOOSE k \in DOMAIN executions : executions[k].properties = p]
SettlingOf(p) == settled[SettledAt(p)]
CompletedJobs == {p \in SettledJobs : ~Held(p)}

\* ---------------------------------------------------------------- claims

\* C1: with a positive integer concurrency C, in every reachable state the
\* number of jobs whose execute has started and whose body has not yet settled
\* is at most C.
C1_ConcurrencyLimit == concurrency >= 1 => Cardinality(ExecutingJobs) <= concurrency

C1_Witness == concurrency = 2 /\ Cardinality(ExecutingJobs) = 2 /\ Len(queue) >= 1

\* C2: no lost wake-up: with concurrency >= 1 and every job body eventually
\* settling, every job accepted by enqueue is eventually dequeued and its
\* execute invoked.
C2_NoLostWakeup ==
  \A p \in 1 .. MaxJobs : (concurrency >= 1 /\ p \in AcceptedJobs) ~> (p \in StartedJobs)

\* Every worker had gone to sleep after earlier work, one notify has woken them,
\* none has resumed yet, and two jobs sit in the queue.
C2_Witness ==
  /\ concurrency >= 1
  /\ settled # << >>
  /\ activeJobs = 0
  /\ Len(queue) >= 2
  /\ DOMAIN workerTask # {}
  /\ \A w \in DOMAIN workerTask : workerTask[w].pc = "awaitWork"
  /\ Len(microtasks) = Len(workers)

\* C3: in ConcurrentJobQueue the jobs accepted so far are exactly those in the
\* queue, those counted in activeJobs and those with an entry in results, and
\* the entries of results carry the properties of distinct accepted jobs.
C3_ExactlyOneOutcome ==
  kind = "ConcurrentJobQueue" =>
    /\ Len(accepted) = Len(queue) + activeJobs + Len(results)
    /\ \A i \in DOMAIN results : results[i].properties \in AcceptedJobs
    /\ \A i, j \in DOMAIN results : results[i].properties = results[j].properties => i = j

C3_Witness ==
  kind = "ConcurrentJobQueue" /\ Len(results) >= 1 /\ activeJobs >= 1 /\ Len(queue) >= 1

\* C4: a job whose execute throws or rejects gets exactly one outcome, with
\* status 'rejected', that reason and the job's properties; activeJobs counts
\* the workers that hold a job (the failure was decremented), no worker() has
\* thrown, a worker() has returned only after shutdown, and once some job has
\* failed every accepted job, queued earlier or submitted later, still gets
\* exactly one outcome.
C4_FailureIsolation ==
  /\ [](\A p \in SettledJobs :
          BodyOf(p).status = "rejected" /\ ~Held(p) =>
            Outcomes(p) = << [status |-> "rejected", reason |-> BodyOf(p).reason,
                              properties |-> p] >>)
  /\ [](/\ activeJobs = Cardinality({w \in DOMAIN workerTask : workerTask[w].pc = "awaitJob"})
        /\ \A w \in DOMAIN workerTask : workerTask[w].pc # "threw"
        /\ \A w \in DOMAIN workerTask : workerTask[w].pc = "returned" => ~isAcceptingWork)
  /\ \A p \in 1 .. MaxJobs :
       (p \in AcceptedJobs /\ \E q \in SettledJobs : BodyOf(q).status = "rejected")
         ~> (Len(Outcomes(p)) = 1)

\* The only worker has handed over a rejected outcome and, after it, the
\* outcome of another job.
C4_Witness ==
  /\ concurrency = 1
  /\ Len(settled) >= 2
  /\ settled[1].body.status = "rejected"
  /\ Len(Outcomes(settled[1].properties)) = 1
  /\ Len(Outcomes(settled[2].properties)) = 1

\* C5: once finishAllWork has been called, every enqueue and every enqueueAll
\* of a non-empty list throws 'Cannot enqueue jobs after shutdown' and leaves
\* queue, activeJobs, results, jobCounter and resolveMap unchanged.
EnqueueCalled ==
  \/ \E e \in ExecuteKinds : Enqueue(e)
  \/ \E len \in 1 .. MaxBatch : \E es \in [1 .. len -> ExecuteKinds] : EnqueueAll(es)

C5_RejectAfterShutdown ==
  [][FinishCalled /\ EnqueueCalled =>
       /\ lastError' = ShutdownError
       /\ UNCHANGED << queue, activeJobs, results, jobCounter, resolveMap >>]_vars

\* An enqueue has thrown while the shutdown was still draining.
C5_Witness ==
  /\ FinishCalled /\ ~FinishResolved
  /\ lastError = ShutdownError
  /\ activeJobs >= 1 /\ Len(queue) >= 1

\* C6: with a positive integer concurrency, in the state where finishAllWork()
\* resolves and in every later state, queueLength = 0 and activeJobCount = 0.
C6_EmptyAfterShutdown ==
  concurrency >= 1 /\ FinishResolved => Len(queue) = 0 /\ activeJobs = 0

C6_Witness ==
  concurrency >= 1 /\ FinishResolved /\ Len(accepted) >= 2 /\ lastError = ShutdownError

C8_ShutdownResolves ==
  /\ [](~isAcceptingWork => DOMAIN pendingPromises = {})
  /\ \A c \in 1 .. MaxFinishCalls :
       (c \in DOMAIN finishCalls) ~> (c \in DOMAIN finishCalls /\ finishCalls[c].resolved)

\* One job was accepted and has completed, the worker that ran it had gone to
\* sleep (no later enqueue could wake it) and finishAllWork() has woken it.
C8_Witness ==
  /\ FinishCalled /\ ~FinishResolved
  /\ Len(accepted) = 1 /\ Len(settled) = 1 /\ activeJobs = 0
  /\ \E i \in DOMAIN microtasks :
       /\ microtasks[i] = executions[1].workerId
       /\ workerTask[microtasks[i]].pc = "awaitWork"

\* C9: a waitForIdle() call made with activeJobs = 0 and an empty queue has its
\* promise resolved within the call and adds nothing to waitingResolvers.
C9_IdleResolvesImmediately ==
  [][Len(idleCalls') = Len(idleCalls) + 1 /\ activeJobs = 0 /\ Len(queue) = 0 =>
       /\ idleCalls'[Len(idleCalls')].resolutions = 1
       /\ waitingResolvers' = waitingResolvers]_vars

\* A call made on an idle engine, after work was done and the shutdown resolved.
C9_Witness ==
  /\ FinishResolved
  /\ settled # << >>
  /\ \E c \in DOMAIN idleCalls : idleCalls[c].atIdle /\ idleCalls[c].resolutions = 1

\* C10: a waitForIdle() promise is resolved only by a step that ends with
\* activeJobs = 0 and an empty queue, and no such state is passed while the
\* call is still pending: it is resolved at the first idle state after it.
C10_ResolvedOnlyWhenIdle ==
  /\ []((\E c \in DOMAIN idleCalls : Pending(c)) => ~Idle)
  /\ [][\A c \in DOMAIN idleCalls :
          Pending(c) /\ idleCalls'[c].resolutions > 0 => activeJobs' = 0 /\ Len(queue') = 0]_vars

\* A call made while the engine was busy has been resolved.
C10_Witness ==
  /\ Len(settled) >= 2
  /\ \E c \in DOMAIN idleCalls : ~idleCalls[c].atIdle /\ idleCalls[c].resolutions = 1

\* C11: with concurrency >= 1 and every job settling, every waitForIdle() call
\* is resolved, never more than once; the step that resolves one pending call
\* resolves every pending call and leaves waitingResolvers empty.
C11_AllWaitersHonoured ==
  /\ [](\A c \in DOMAIN idleCalls : idleCalls[c].resolutions <= 1)
  /\ [][(\E c \in DOMAIN idleCalls : Pending(c) /\ idleCalls'[c].resolutions > 0) =>
          /\ \A d \in DOMAIN idleCalls : idleCalls'[d].resolutions = 1
          /\ waitingResolvers' = << >>]_vars
  /\ \A c \in 1 .. MaxIdleCalls :
       (concurrency >= 1 /\ c \in DOMAIN idleCalls)
         ~> (c \in DOMAIN idleCalls /\ idleCalls[c].resolutions = 1)

\* Two calls were made while the engine was busy, and both have been resolved.
C11_Witness ==
  /\ concurrency >= 1
  /\ Len(idleCalls) = 2
  /\ \A c \in DOMAIN idleCalls : ~idleCalls[c].atIdle /\ idleCalls[c].resolutions = 1
  /\ waitingResolvers = << >>

\* C12: in ConcurrentJobQueue, when the completion step of a job resolves
\* pending waitForIdle() calls, the outcome of that job is already in results
\* at the moment resolve is called, and results holds exactly one outcome for
\* every job accepted so far.
C12_ResultsCompleteAtIdle ==
  [][kind = "ConcurrentJobQueue"
       /\ (\E c \in DOMAIN idleCalls : Pending(c) /\ idleCalls'[c].resolutions > 0) =>
          /\ \A c \in DOMAIN idleCalls :
               Pending(c) => idleCalls'[c].resultsSeen = Len(accepted')
          /\ Len(results') = Len(accepted')
          /\ \A i \in DOMAIN accepted' :
               Len(SelectSeq(results', LAMBDA r : r.properties = accepted'[i].properties)) = 1]_vars

\* A pending call of a queue has been notified after two jobs completed.
C12_Witness ==
  /\ kind = "ConcurrentJobQueue"
  /\ Len(results) >= 2
  /\ Len(results) = Len(accepted)
  /\ \E c \in DOMAIN idleCalls : ~idleCalls[c].atIdle /\ idleCalls[c].resolutions = 1

\* C13: jobs start in submission order: the i-th invocation of execute is that
\* of the i-th accepted job, whatever the concurrency and the order in which
\* bodies settle.
C13_StartInSubmissionOrder ==
  /\ Len(executions) <= Len(accepted)
  /\ \A i \in DOMAIN executions : executions[i].properties = accepted[i].properties

\* Three jobs have started, and the second one settled before the first.
C13_Witness ==
  /\ concurrency = 2
  /\ Len(executions) = 3
  /\ settled # << >>
  /\ settled[1].properties = 2

C15_OwnOutcomeOnce ==
  kind = "ConcurrentWorkerPool" =>
    /\ Len(jobPromises) = Len(accepted)
    /\ \A p \in DOMAIN jobPromises :
         /\ Len(jobPromises[p]) = IF p \in CompletedJobs THEN 1 ELSE 0
         /\ p \in CompletedJobs =>
              jobPromises[p][1] = JobResult(accepted[p], BodyOf(p))

\* Two promises of a pool were resolved in the reverse of the submission
\* order, one of them with a failure.
C15_Witness ==
  /\ kind = "ConcurrentWorkerPool"
  /\ Len(settled) >= 2
  /\ settled[1].properties = 2 /\ settled[2].properties = 1
  /\ Len(jobPromises[1]) = 1 /\ Len(jobPromises[2]) = 1
  /\ \E p \in 1 .. 2 : jobPromises[p][1].status = "rejected"

\* C16: in ConcurrentWorkerPool jobCounter only increases, by one per accepted
\* job; every identifier in use is below it and the identifier given to a newly
\* accepted job is at or above its value before the call, so above every
\* identifier given before, deleted registry entries included.
C16_FreshIdentifiers ==
  /\ [](kind = "ConcurrentWorkerPool" =>
          /\ jobCounter = Len(accepted)
          /\ \A i \in DOMAIN queue : queue[i].concurrentJobId < jobCounter
          /\ \A i, j \in DOMAIN queue : i < j => queue[i].concurrentJobId < queue[j].concurrentJobId
          /\ \A id \in DOMAIN resolveMap : id < jobCounter
          /\ \A w \in DOMAIN workerTask :
               workerTask[w].pc = "awaitJob" => workerTask[w].job.concurrentJobId < jobCounter)
  /\ [][kind = "ConcurrentWorkerPool" =>
          /\ jobCounter' - jobCounter = Len(accepted') - Len(accepted)
          /\ jobCounter' >= jobCounter
          /\ \A i \in DOMAIN queue' :
               queue'[i].properties \notin AcceptedJobs => queue'[i].concurrentJobId >= jobCounter
          /\ \A w \in DOMAIN workerTask' :
               /\ workerTask'[w].pc = "awaitJob"
               /\ workerTask'[w].job.properties \notin AcceptedJobs
               => workerTask'[w].job.concurrentJobId >= jobCounter
          /\ \A id \in DOMAIN resolveMap' \ DOMAIN resolveMap : id >= jobCounter]_vars

\* A third identifier was given after the first two jobs had completed and
\* their registry entries were deleted.
C16_Witness ==
  /\ kind = "ConcurrentWorkerPool"
  /\ jobCounter = 3
  /\ DOMAIN resolveMap = {2}
  /\ Len(settled) = 2

\* C17: in every reachable state and for every list, enqueueAll(jobs) leaves
\* the engine in the state that calling enqueue on each element in list order
\* leaves it in (queue, workers, wake-ups, pending continuations and all), and
\* throws exactly when those calls throw; in ConcurrentWorkerPool the i-th
\* promise it returns is the one the registry holds for the i-th job, or the
\* one already resolved with the i-th job's outcome.
C17_EnqueueAllIsRepeatedEnqueue ==
  \A jobs \in Batches :
    \E after \in {enqueueAll(Here, jobs)} : \E each \in {EnqueueOneByOne(Here, jobs)} :
      /\ [after EXCEPT !.lastError = NoError] = [each EXCEPT !.lastError = NoError]
      /\ jobs # << >> => after.lastError = each.lastError
      /\ kind = "ConcurrentWorkerPool" /\ isAcceptingWork =>
           \E returned \in {enqueueAllReturns(Here, jobs)} :
             /\ Len(returned) = Len(jobs)
             /\ \A i \in DOMAIN jobs :
                  \/ \E j \in StoredJobs(after) :
                       /\ j.properties = jobs[i].properties
                       /\ after.resolveMap[j.concurrentJobId] = returned[i]
                  \/ /\ Len(after.jobPromises[returned[i]]) = 1
                     /\ after.jobPromises[returned[i]][1].properties = jobs[i].properties

\* A pool whose two workers had gone to sleep after earlier work has accepted
\* two more jobs: one notify has woken both workers, both jobs are queued.
C17_Witness ==
  /\ kind = "ConcurrentWorkerPool"
  /\ concurrency = 2
  /\ Len(accepted) = 3 /\ Len(settled) = 1
  /\ Len(queue) = 2
  /\ Len(microtasks) = 2
  /\ \A w \in DOMAIN workerTask : workerTask[w].pc = "awaitWork"

\* C18: runJobs(jobs, c) with c >= 1 returns, and the array it returns has
\* length jobs.length and holds at index i the outcome of jobs[i]: what its
\* body produced, and its properties.
C18_ResultsByIndex ==
  /\ [](run.concurrency >= 1 /\ run.returned =>
          /\ ArrayLength(run.results) = Len(run.jobs)
          /\ DOMAIN run.results = 0 .. Len(run.jobs) - 1
          /\ \A i \in DOMAIN run.results :
               run.results[i] = JobResult(run.jobs[i + 1], run.bodies[i]))
  /\ (run.concurrency >= 1) ~> run.returned

\* Three jobs were run by two workers; the second job settled first and
\* failed, and the call has returned.
C18_Witness ==
  /\ run.returned
  /\ run.concurrency = 2
  /\ Len(run.jobs) = 3
  /\ run.executions[3].workerId = 2
  /\ run.results[1].status = "rejected"
  /\ \A i \in 1 .. 3 : run.jobs[i].execute = "async"

\* C19: runJobs called with concurrency <= 0 fails with the 'Invalid
\* concurrency' error: no worker is started, no execute is invoked and nothing
\* is returned, for every job list.
C19_InvalidConcurrency ==
  run.concurrency <= 0 =>
    /\ run.workers = << >> /\ run.workerTask = << >>
    /\ run.executions = << >>
    /\ run.nextIndex = 0
    /\ ~run.returned
    /\ run.called => run.error = InvalidConcurrency

C19_Witness ==
  run.called /\ run.concurrency = 0 /\ Len(run.jobs) = 2 /\ run.error = InvalidConcurrency

\* C20: once called, runJobs(jobs, c) has started exactly the workers with ids
\* 1 .. min(c, jobs.length) (none when that range is empty); at no time are
\* more jobs executing than there are ids in that range, and every workerId a
\* job sees is in that range.
C20_WorkerCount ==
  run.called =>
    /\ run.workers = [w \in 1 .. Min(run.concurrency, Len(run.jobs)) |-> w]
    /\ DOMAIN run.workerTask = 1 .. Min(run.concurrency, Len(run.jobs))
    /\ Cardinality(RunExecuting) <= Cardinality(1 .. Min(run.concurrency, Len(run.jobs)))
    /\ \A k \in DOMAIN run.executions :
         run.executions[k].workerId \in 1 .. Min(run.concurrency, Len(run.jobs))

\* Fewer jobs than the concurrency allows: one worker ran the only job.
C20_Witness ==
  /\ run.called
  /\ run.concurrency = 2 /\ Len(run.jobs) = 1
  /\ Len(run.executions) = 1
  /\ DOMAIN run.workerTask = {1}

\* C21: in runJobs the indices are claimed one by one through nextIndex: the
\* k-th invocation of execute is that of jobs[k-1], so no job is invoked twice;
\* a worker has returned only after claiming an index past the end, also after
\* its job failed; and when runJobs has resolved every job was invoked once
\* and has settled.
C21_EachIndexOnce ==
  /\ \A k \in DOMAIN run.executions : run.executions[k].properties = k
  /\ Len(run.executions) <= Len(run.jobs)
  /\ run.nextIndex =
       Len(run.executions)
         + Cardinality({w \in DOMAIN run.workerTask : run.workerTask[w].pc = "returned"})
  /\ \A w \in DOMAIN run.workerTask :
       /\ run.workerTask[w].pc \in {"awaitJob", "returned"}
       /\ run.workerTask[w].pc = "returned" => run.workerTask[w].i >= Len(run.jobs)
  /\ run.returned =>
       /\ Len(run.executions) = Len(run.jobs)
       /\ DOMAIN run.bodies = 0 .. Len(run.jobs) - 1

\* One worker ran three jobs, the first of which rejected, and the call has
\* resolved.
C21_Witness ==
  /\ run.returned
  /\ run.concurrency = 1
  /\ Len(run.executions) = 3
  /\ run.jobs[1].execute = "async"
  /\ run.bodies[0].status = "rejected"

\* C22: every invocation of execute gets a context whose workerId is in
\* 1 .. concurrency and whose properties are those of the job invoked (the
\* k-th invocation is that of the k-th accepted job), and two jobs that have
\* both started and not both completed were given different workerIds.
C22_ContextOfJob ==
  /\ \A k \in DOMAIN executions :
       /\ executions[k].workerId \in 1 .. concurrency
       /\ executions[k].properties = accepted[k].properties
  /\ \A k, l \in DOMAIN executions :
       /\ k # l
       /\ executions[k].properties \notin CompletedJobs
       /\ executions[l].properties \notin CompletedJobs
       => executions[k].workerId # executions[l].workerId

\* Worker 1 runs its second job while worker 2 still runs its first.
C22_Witness ==
  /\ concurrency = 2
  /\ Len(executions) = 3
  /\ executions[3].workerId = 1
  /\ ExecutingJobs = {2, 3}

\* C23: the k-th report for a job carries minutes = k, the id of the worker
\* that runs it and the job's properties; a job in flight has one report per
\* full 60 seconds since its start (the one that has just come due may still
\* be to come); a job that has settled has one report per full 60 seconds it
\* was in flight (none when it settled before 60 seconds; one fewer when it
\* settled within the clock tick in which a report came due); no report is
\* made for a job that has settled; and a report changes nothing but the log
\* and the timer.
C23_WatchdogReports ==
  /\ [](\A i \in DOMAIN warnings :
          LET p == warnings[i].context.id
          IN /\ warnings[i].message = "Long-running job detected."
             /\ warnings[i].minutes =
                  Cardinality({j \in 1 .. i : warnings[j].context.id = p})
             /\ warnings[i].context = [workerId |-> ExecutionOf(p).workerId, id |-> p])
  /\ [](\A p \in DOMAIN timers :
          Len(Reports(p)) =
            IF timers[p].due <= now
              THEN (now - ExecutionOf(p).startTime) \div IntervalMs - 1
              ELSE (now - ExecutionOf(p).startTime) \div IntervalMs)
  /\ [](\A p \in SettledJobs :
          LET d == SettlingOf(p).time - ExecutionOf(p).startTime
          IN /\ Len(Reports(p)) <= d \div IntervalMs
             /\ Len(Reports(p)) >= (d - (TickMs - 1)) \div IntervalMs
             /\ d < IntervalMs => Len(Reports(p)) = 0)
  /\ [][warnings' # warnings =>
          /\ Len(warnings') = Len(warnings) + 1
          /\ warnings'[Len(warnings')].context.id \notin SettledJobs
          /\ UNCHANGED << queue, activeJobs, results, jobPromises, jobCounter, resolveMap,
                          workerTask, workers, microtasks, pendingPromises, waitingResolvers,
                          isAcceptingWork, accepted, executions, settled >>]_vars

\* One job was in flight for more than two minutes and was reported twice;
\* another one settled within its first minute and was not reported.
C23_Witness ==
  /\ Len(Reports(1)) = 2
  /\ 1 \in CompletedJobs
  /\ 2 \in CompletedJobs
  /\ SettlingOf(2).time - ExecutionOf(2).startTime < IntervalMs
  /\ Len(Reports(2)) = 0
  /\ Len(warnings) = 2

C25_ZeroWorkersNeverDrain ==
  concurrency <= 0 =>
    /\ workers = << >> /\ workerTask = << >> /\ microtasks = << >>
    /\ executions = << >> /\ settled = << >> /\ activeJobs = 0
    /\ Len(queue) = Len(accepted)
    /\ \A i \in DOMAIN queue : queue[i].properties = accepted[i].properties
    /\ isAcceptingWork => lastError = NoError
    /\ \A c \in DOMAIN idleCalls : ~idleCalls[c].atIdle => idleCalls[c].resolutions = 0

\* Two jobs sit in the queue of an engine without workers, a waitForIdle()
\* made after them is pending, and the shutdown has resolved.
C25_Witness ==
  /\ concurrency = 0
  /\ Len(queue) = 2
  /\ FinishResolved
  /\ \E c \in DOMAIN idleCalls : ~idleCalls[c].atIdle /\ Pending(c)

C27_AcceptingWorkFlipsOnce ==
  /\ [](isAcceptingWork <=> finishCalls = << >>)
  /\ [][(isAcceptingWork' # isAcceptingWork) =>
           (isAcceptingWork /\ Len(finishCalls') = Len(finishCalls) + 1)]_vars
  /\ [][(~isAcceptingWork) =>
           (~isAcceptingWork' /\ Len(queue') <= Len(queue))]_vars

\* After two calls of finishAllWork and a refused enqueue a job is still
\* queued behind the one being run.
C27_Witness ==
  /\ ~isAcceptingWork
  /\ Len(finishCalls) = 2
  /\ lastError = ShutdownError
  /\ concurrency = 1
  /\ Len(queue) = 1 /\ Len(accepted) = 3 /\ Len(settled) = 1

C28_EngineState ==
  << queue, results, activeJobs, workerTask, isAcceptingWork, microtasks,
     pendingPromises, jobPromises, accepted, executions, settled, jobCounter >>

queueLength == Len(queue)
activeJobCount == activeJobs

\* C29: in every state activeJobCount is the number of workers that hold a
\* dequeued job whose completion has not run, and queueLength is the number of
\* accepted jobs not yet dequeued; activeJobCount is never negative and equals
\* the number of jobs dequeued minus the number of jobs completed, whether
\* they succeeded or failed.
C29_CountersMatch ==
  /\ activeJobCount = Cardinality({w \in DOMAIN workerTask : workerTask[w].pc = "awaitJob"})
  /\ queueLength = Len(accepted) - Len(executions)
  /\ activeJobCount >= 0
  /\ activeJobCount = Len(executions) - Cardinality(CompletedJobs)

\* One job failed and completed, one is running and one is queued.
C29_Witness ==
  /\ Len(accepted) = 3 /\ queueLength = 1 /\ activeJobCount = 1
  /\ \E i \in DOMAIN settled :
       settled[i].body.status = "rejected" /\ settled[i].properties \in CompletedJobs

\* C30: with concurrency 1 at most one job is executing at a time, jobs are
\* started in submission order, and the results list of ConcurrentJobQueue
\* and the sequence of onComplete calls of StreamingJobQueue hold the outcomes
\* of the first jobs submitted, in submission order.
C30_SerialOrder ==
  concurrency = 1 =>
    /\ activeJobs <= 1
    /\ Cardinality(ExecutingJobs) <= 1
    /\ \A i \in DOMAIN executions : executions[i].properties = accepted[i].properties
    /\ kind = "ConcurrentJobQueue" =>
         /\ Len(results) <= Len(accepted)
         /\ \A i \in DOMAIN results : results[i].properties = accepted[i].properties
    /\ kind = "StreamingJobQueue" =>
         /\ Len(onCompleteCalls) <= Len(accepted)
         /\ \A i \in DOMAIN onCompleteCalls :
              onCompleteCalls[i].properties = accepted[i].properties

\* Two jobs have completed, the first by failing, the worker went to sleep
\* (the third job was not there when the second completed, or it would have
\* been dequeued in the same step) and the third job is queued or running.
C30_Witness ==
  /\ kind = "ConcurrentJobQueue" /\ concurrency = 1
  /\ Len(results) = 2 /\ results[1].status = "rejected"
  /\ Len(accepted) = 3
  /\ activeJobs = 1
  /\ idleCalls # << >> /\ idleCalls[1].resolutions = 1 /\ idleCalls[1].resultsSeen = 2

\* C31: in ConcurrentWorkerPool no state shows a job whose promise is resolved
\* and which is still queued, still held by a worker, still counted in
\* activeJobCount or still registered in resolveMap; so when the promise of
\* every accepted job is resolved, queueLength and activeJobCount are 0.
C31_ResolveIsAtomic ==
  kind = "ConcurrentWorkerPool" =>
    /\ \A j \in StoredJobs(Here) : Outcomes(j.properties) = << >>
    /\ \A k \in DOMAIN resolveMap : jobPromises[resolveMap[k]] = << >>
    /\ activeJobCount = Cardinality({p \in StartedJobs : Outcomes(p) = << >>})
    /\ (\A p \in AcceptedJobs : Outcomes(p) # << >>) =>
         queueLength = 0 /\ activeJobCount = 0

\* Three jobs were handed to a pool, one of them failed, and the promise of
\* each has been resolved.
C31_Witness ==
  /\ kind = "ConcurrentWorkerPool"
  /\ Len(accepted) = 3
  /\ \A p \in AcceptedJobs : Len(Outcomes(p)) = 1
  /\ \E p \in AcceptedJobs : Outcomes(p)[1].status = "rejected"
  /\ queueLength = 0 /\ activeJobCount = 0

\* C32: with concurrency >= 1, whenever a job is queued and fewer than
\* `concurrency` jobs are active, the continuation of a worker is already
\* queued, and a job is dequeued without an enqueue or a settling being
\* needed; so once every continuation has run, the queue is empty or exactly
\* `concurrency` jobs are active.
C32_WorkConserving ==
  /\ [](concurrency >= 1 /\ Len(queue) > 0 /\ activeJobs < concurrency =>
          \E i \in DOMAIN microtasks :
            workerTask[microtasks[i]].pc \in {"awaitWork", "awaitJob"})
  /\ [](concurrency >= 1 /\ microtasks = << >> =>
          Len(queue) = 0 \/ activeJobs = concurrency)
  /\ \A n \in 0 .. MaxJobs :
       (concurrency >= 1 /\ Len(queue) > 0 /\ activeJobs < concurrency
          /\ Len(executions) = n)
         ~> (Len(executions) > n)

\* Three jobs were handed to an engine of concurrency 2 and none has settled:
\* two are active and one is queued.
C32_Witness ==
  /\ concurrency = 2
  /\ Len(accepted) = 3 /\ settled = << >>
  /\ microtasks = << >>
  /\ activeJobs = 2 /\ Len(queue) = 1

\* C33: in every state with a job in the queue the work-available slot is
\* empty (workAvailablePromise and resolveWorkAvailable are null) and no
\* worker is suspended on an unresolved work-available promise.
C33_QueuedMeansSlotEmpty ==
  Len(queue) > 0 =>
    /\ workAvailablePromise = null
    /\ resolveWorkAvailable = null
    /\ DOMAIN pendingPromises = {}

\* A worker had armed the slot and gone to sleep; an enqueue has put a job in
\* the queue, cleared the slot and queued the worker's continuation.
C33_Witness ==
  /\ isAcceptingWork
  /\ Len(queue) > 0
  /\ workAvailablePromise = null
  /\ \E i \in DOMAIN microtasks : workerTask[microtasks[i]].pc = "awaitWork"

\* C34: in every state with activeJobs = 0 and an empty queue,
\* waitingResolvers is empty and the promise of every waitForIdle() call made
\* so far has been resolved.
C34_IdleMeansNoWaiter ==
  Idle =>
    /\ waitingResolvers = << >>
    /\ \A c \in DOMAIN idleCalls : ~Pending(c)

\* Two waitForIdle() calls were made while the engine was busy; the engine is
\* idle, both have been resolved and the list is empty.
C34_Witness ==
  /\ Idle
  /\ Len(idleCalls) = 2
  /\ \A c \in DOMAIN idleCalls : ~idleCalls[c].atIdle /\ idleCalls[c].resolutions = 1
  /\ waitingResolvers = << >>

\* C35: in every state of ConcurrentWorkerPool the keys of resolveMap are the
\* identifiers of the jobs that are queued or held by a worker, one key per
\* job: its size is queueLength + activeJobCount, whatever the number of jobs
\* completed, and it is empty when the pool is idle.
C35_ResolveMapIsLiveJobs ==
  kind = "ConcurrentWorkerPool" =>
    /\ DOMAIN resolveMap = {j.concurrentJobId : j \in StoredJobs(Here)}
    /\ Cardinality(DOMAIN resolveMap) = queueLength + activeJobCount
    /\ Cardinality(DOMAIN resolveMap) = Len(accepted) - Cardinality(CompletedJobs)
    /\ Idle => DOMAIN resolveMap = {}

\* Two jobs of a pool have completed and a third is queued or running:
\* resolveMap holds one entry.
C35_Witness ==
  /\ kind = "ConcurrentWorkerPool"
  /\ Len(accepted) = 3
  /\ Cardinality(CompletedJobs) = 2
  /\ Cardinality(DOMAIN resolveMap) = 1

\* C36: with concurrency >= 1, in every state in which a finishAllWork() call
\* has resolved, waitingResolvers is empty and the promise of every
\* waitForIdle() call has been resolved, exactly once.
C36_ShutdownLeavesNoWaiter ==
  concurrency >= 1 /\ FinishResolved =>
    /\ waitingResolvers = << >>
    /\ \A c \in DOMAIN idleCalls : idleCalls[c].resolutions = 1

\* Two waitForIdle() calls were made while jobs were queued or running, a
\* finishAllWork() call has resolved, and both waiters were resolved by the
\* completion of the last of the three jobs.
C36_Witness ==
  /\ concurrency >= 1
  /\ FinishResolved
  /\ Len(accepted) = 3
  /\ Len(idleCalls) = 2
  /\ \A c \in DOMAIN idleCalls :
       /\ ~idleCalls[c].atIdle
       /\ idleCalls[c].resolutions = 1
       /\ kind = "ConcurrentJobQueue" => idleCalls[c].resultsSeen = 3
====
